---- MODULE Spec2Model ----
(***************************************************************************)
(* A model of the DS4CG training/evaluation harness:                       *)
(*   - Engine._train      (src/src/engine.py), the epoch loop with the     *)
(*     best-checkpoint decision                          -> Spec           *)
(*   - Engine._train_one_epoch, Engine._val, Engine._eval, the passes over *)
(*     one split, batch by batch                         -> SpecPass       *)
(*   - NACTI.__init__/__len__/__getitem__ (src/src/datasets.py)            *)
(*                                                        -> SpecData      *)
(*                                                                         *)
(* Numbers.  A loss is a float in the code; the model draws each batch     *)
(* loss from 0..MaxLoss (a fixed unit) and keeps a quotient a/b as the     *)
(* pair <<a, b>>.  A validation accuracy is num_corrects / len(dataset);   *)
(* in Spec the validation split has ValSamples samples in every epoch, so  *)
(* an accuracy is kept as its numerator num_corrects (0.0 is 0) and two    *)
(* accuracies compare as their numerators do.                              *)
(***************************************************************************)
EXTENDS Integers, Sequences, FiniteSets

VARIABLES
    \* ---- the Engine object and its configuration (inputs)
    self_attrs,      \* attributes of the Engine that the passes read
    checkpoint,      \* self.checkpoint: None or a loaded checkpoint
    train_config,    \* self.config["train"]
    val_corrects,    \* what the validation passes of the call will count
    \* ---- Engine._train
    pc, start_epoch, num_epochs, epoch, best_acc, val_acc, val_accuracies,
    exc,             \* the exception that ended the call, if any
    disk,            \* checkpoint files: path -> stored dictionary
    saves,           \* history: the epoch stored by each torch.save
    epochs_run,      \* history: the epochs whose training pass was started
    \* ---- one pass over a split (_train_one_epoch, _val, _eval)
    split, dataset_len, batch_size, ppc, batch_idx, total_loss, num_corrects,
    batch_losses, batch_corrects, result, pexc,
    \* ---- the NACTI dataset adapter
    label_type, metadata_exists, annotations, image_exists,
    dpc, label_map, opened, item, dexc

engineVars == <<self_attrs, checkpoint, train_config, val_corrects>>
trainVars  == <<pc, start_epoch, num_epochs, epoch, best_acc, val_acc,
                val_accuracies, exc, disk, saves, epochs_run>>
passVars   == <<split, dataset_len, batch_size, ppc, batch_idx, total_loss,
                num_corrects, batch_losses, batch_corrects, result, pexc>>
dataVars   == <<label_type, metadata_exists, annotations, image_exists,
                dpc, label_map, opened, item, dexc>>
vars == <<engineVars, trainVars, passVars, dataVars>>

----------------------------------------------------------------------------
\* Bounds of the model.
MaxCkptEpoch  == 2    \* a loaded checkpoint holds an epoch in 0..MaxCkptEpoch
MaxNumEpochs  == 3    \* a configured num_epochs is in 0..MaxNumEpochs
MaxClasses    == 2    \* misc['num_classes'] is in 1..MaxClasses
ValSamples    == 2    \* len(dataloader['val'].dataset) in Spec
ValScriptLen  == 3    \* the validation results repeat with this period
MaxSamples    == 4    \* len(dataset) of the split of a pass is in 0..MaxSamples
MaxBatchSize  == 3    \* the loader's batch size is in 1..MaxBatchSize
MaxLoss       == 2    \* a batch loss is in 0..MaxLoss
MaxImages     == 2    \* the annotation file lists at most MaxImages images
MaxCategoryId == 16   \* a category_id is in 1..MaxCategoryId

\* Python's None, and a present value.
None == <<>>
Some(x) == <<x>>

\* dict.get(key, default)
Get(d, key, default) == IF key \in DOMAIN d THEN d[key] ELSE default

\* hasattr(self, name)
HasAttr(o, name) == name \in DOMAIN o

----------------------------------------------------------------------------
\* Engine._train

DefaultNumEpochs == 50
DefaultSaveDir == "checkpoints"
EpochExtension == 50
InitialBestAcc == 0

model_name == "resnet18"
tag == "run"

\* start_epoch = 0 if self.checkpoint is None else self.checkpoint['epoch']
StartEpoch(ckpt) == IF ckpt = None THEN 0 ELSE ckpt[1].epoch

\* if num_epochs < start_epoch: num_epochs = start_epoch + 50
\* (ExtendNonStrict is the faulty variant that also extends on equality)
ExtendNonStrict(configured, start) ==
    IF configured <= start THEN start + EpochExtension ELSE configured
ExtendEpochs(configured, start) ==
    IF configured < start THEN start + EpochExtension ELSE configured

NumEpochs(cfg, start) ==
    ExtendEpochs(Get(cfg, "num_epochs", DefaultNumEpochs), start)

\* if val_acc > best_acc
\* (ImprovesOrTies is the faulty variant that lets a tie through)
ImprovesOrTies(acc, best) == acc >= best
Improves(acc, best) == acc > best

\* save_path(save_dir, model_name, tag): one path for one triple
save_path(save_dir, name, t) == <<save_dir, name, t>>

\* the dictionary handed to torch.save; model_state_dict and
\* optimizer_state_dict are not modelled
\* (checkpoint_dict_stale is the faulty variant that stores the resume epoch)
checkpoint_dict_stale(ep) == [epoch |-> start_epoch]
checkpoint_dict(ep) == [epoch |-> ep]

\* the path _save_model writes
\* (checkpoint_path_per_epoch is the faulty variant with one file per epoch)
checkpoint_path_per_epoch(save_dir, ep) ==
    save_path(save_dir, model_name, <<tag, ep>>)
checkpoint_path(save_dir, ep) == save_path(save_dir, model_name, tag)

\* torch.save(dict, path): the file at path is replaced
Write(d, path, content) ==
    [p \in DOMAIN d \cup {path} |-> IF p = path THEN content ELSE d[p]]

_save_model(d, save_dir, ep) ==
    Write(d, checkpoint_path(save_dir, ep), checkpoint_dict(ep))

\* where control goes when a pass raises: _train has no try/except
\* (OnRaiseRetry is the faulty variant that swallows the exception)
OnRaiseRetry == "loop"
OnRaise == "raised"

SaveDir == Get(train_config, "save_dir", DefaultSaveDir)

\* the k-th validation pass of the call (k from 0) counts this many corrects
ValCorrects(k) == val_corrects[(k % ValScriptLen) + 1]

PassIdle ==
    /\ split = "none" /\ dataset_len = 0 /\ batch_size = 1 /\ ppc = "idle"
    /\ batch_idx = 0 /\ total_loss = 0 /\ num_corrects = 0
    /\ batch_losses = <<>> /\ batch_corrects = <<>> /\ result = None
    /\ pexc = "none"

DataIdle ==
    /\ label_type = "binary" /\ metadata_exists = TRUE /\ annotations = <<>>
    /\ image_exists = <<>> /\ dpc = "idle" /\ label_map = <<>>
    /\ opened = {} /\ item = None /\ dexc = "none"

\* __init__ assigns self.num_classes (line 67) and never self.num_clsses,
\* the attribute _val and _eval read: an Engine has it only when it was set
\* on the object after construction
AttrsOf(c) == { [num_classes |-> c], [num_classes |-> c, num_clsses |-> c] }
EngineAttrs == UNION { AttrsOf(c) : c \in 1..MaxClasses }

Init ==
    /\ self_attrs \in AttrsOf(1)
    /\ checkpoint \in {None} \cup {Some([epoch |-> e]) : e \in 0..MaxCkptEpoch}
    /\ train_config \in {<<>>} \cup {[num_epochs |-> n] : n \in 0..MaxNumEpochs}
    /\ val_corrects \in [1..ValScriptLen -> 0..ValSamples]
    /\ pc = "start"
    /\ start_epoch = 0 /\ num_epochs = 0 /\ epoch = 0
    /\ best_acc = 0 /\ val_acc = 0 /\ val_accuracies = <<>>
    /\ exc = "none"
    /\ disk \in {<<>>} \cup
         (IF checkpoint = None THEN {}
          ELSE {Write(<<>>, save_path(DefaultSaveDir, model_name, tag),
                      checkpoint[1])})
    /\ saves = <<>>
    /\ epochs_run = <<>>
    /\ PassIdle
    /\ DataIdle

\* lines 79-91: the epoch range and the best-accuracy record
TrainStart ==
    /\ pc = "start"
    /\ start_epoch' = StartEpoch(checkpoint)
    /\ num_epochs' = NumEpochs(train_config, StartEpoch(checkpoint))
    /\ epoch' = StartEpoch(checkpoint)
    /\ val_accuracies' = <<>>
    /\ best_acc' = InitialBestAcc
    /\ pc' = "loop"
    /\ UNCHANGED <<val_acc, exc, disk, saves, epochs_run>>
    /\ UNCHANGED <<engineVars, passVars, dataVars>>

\* line 95: train_loss = self._train_one_epoch() returns
TrainOneEpoch ==
    /\ pc = "loop" /\ epoch < num_epochs
    /\ epochs_run' = Append(epochs_run, epoch)
    /\ pc' = "val"
    /\ UNCHANGED <<start_epoch, num_epochs, epoch, best_acc, val_acc,
                   val_accuracies, exc, disk, saves>>
    /\ UNCHANGED <<engineVars, passVars, dataVars>>

\* line 95: the training pass raises (device, shape, memory)
TrainOneEpochRaises ==
    /\ pc = "loop" /\ epoch < num_epochs
    /\ epochs_run' = Append(epochs_run, epoch)
    /\ exc' = "RuntimeError"
    /\ pc' = OnRaise
    /\ UNCHANGED <<start_epoch, num_epochs, epoch, best_acc, val_acc,
                   val_accuracies, disk, saves>>
    /\ UNCHANGED <<engineVars, passVars, dataVars>>

\* line 104: val_loss, val_acc = self._val() returns
Val ==
    /\ pc = "val"
    /\ HasAttr(self_attrs, "num_clsses")
    /\ val_acc' = ValCorrects(Len(val_accuracies))
    /\ pc' = "decide"
    /\ UNCHANGED <<start_epoch, num_epochs, epoch, best_acc, val_accuracies,
                   exc, disk, saves, epochs_run>>
    /\ UNCHANGED <<engineVars, passVars, dataVars>>

\* line 104: the validation pass raises: the framework, or line 170's read of
\* self.num_clsses, an attribute __init__ never assigns
ValRaises ==
    /\ pc = "val"
    /\ \/ exc' = "RuntimeError"
       \/ ~HasAttr(self_attrs, "num_clsses") /\ exc' = "AttributeError"
    /\ pc' = OnRaise
    /\ UNCHANGED <<start_epoch, num_epochs, epoch, best_acc, val_acc,
                   val_accuracies, disk, saves, epochs_run>>
    /\ UNCHANGED <<engineVars, passVars, dataVars>>

\* lines 107-111, the accuracy improves: record it and save the model
SaveBest ==
    /\ pc = "decide"
    /\ Improves(val_acc, best_acc)
    /\ best_acc' = val_acc
    /\ disk' = _save_model(disk, SaveDir, epoch)
    /\ saves' = Append(saves, checkpoint_dict(epoch).epoch)
    /\ val_accuracies' = Append(val_accuracies, val_acc)
    /\ epoch' = epoch + 1
    /\ pc' = "loop"
    /\ UNCHANGED <<start_epoch, num_epochs, val_acc, exc, epochs_run>>
    /\ UNCHANGED <<engineVars, passVars, dataVars>>

\* lines 107-111, no improvement: nothing is saved
SkipSave ==
    /\ pc = "decide"
    /\ ~Improves(val_acc, best_acc)
    /\ val_accuracies' = Append(val_accuracies, val_acc)
    /\ epoch' = epoch + 1
    /\ pc' = "loop"
    /\ UNCHANGED <<start_epoch, num_epochs, best_acc, val_acc, exc, disk,
                   saves, epochs_run>>
    /\ UNCHANGED <<engineVars, passVars, dataVars>>

\* line 93: range(start_epoch, num_epochs) is exhausted, _train returns
TrainReturn ==
    /\ pc = "loop" /\ epoch >= num_epochs
    /\ pc' = "done"
    /\ UNCHANGED <<start_epoch, num_epochs, epoch, best_acc, val_acc,
                   val_accuracies, exc, disk, saves, epochs_run>>
    /\ UNCHANGED <<engineVars, passVars, dataVars>>

Next ==
    \/ TrainStart
    \/ TrainOneEpoch
    \/ TrainOneEpochRaises
    \/ Val
    \/ ValRaises
    \/ SaveBest
    \/ SkipSave
    \/ TrainReturn

Spec == Init /\ [][Next]_vars

----------------------------------------------------------------------------
\* One pass over a split: Engine._train_one_epoch, Engine._val, Engine._eval.
\* The loader of a split of n samples with batch size b yields the batches
\* 0, 1, ... in order, each of b samples but for a smaller last one.

\* len(self.dataloader[split])
NumBatches(n, b) == (n + b - 1) \div b

\* inputs.size(0) of batch k (k from 0)
\* (NominalBatchSize is the faulty variant that weights by the configured size)
NominalBatchSize(n, b, k) == b
BatchSize(n, b, k) == IF (k + 1) * b <= n THEN b ELSE n - k * b

\* torch.sum(predictions == labels.data) is at most this: labels is [B, 1]
\* after unsqueeze(-1); the thresholded sigmoid is [B, 1] too, the arg-max
\* of torch.max(outputs, 1) is [B] and the comparison broadcasts to [B, B]
MaxMatches(ncls, size) == IF ncls > 1 THEN size * size ELSE size

CurrentSize == BatchSize(dataset_len, batch_size, batch_idx)

TrainIdle ==
    /\ checkpoint = None /\ train_config = <<>>
    /\ val_corrects = [i \in 1..ValScriptLen |-> 0]
    /\ pc = "start" /\ start_epoch = 0 /\ num_epochs = 0 /\ epoch = 0
    /\ best_acc = 0 /\ val_acc = 0 /\ val_accuracies = <<>>
    /\ exc = "none" /\ disk = <<>> /\ saves = <<>> /\ epochs_run = <<>>

InitPass ==
    /\ self_attrs \in EngineAttrs
    /\ split \in {"train", "val", "eval"}
    /\ dataset_len \in 0..MaxSamples
    /\ batch_size \in 1..MaxBatchSize
    /\ ppc = "idle"
    /\ batch_idx = 0 /\ total_loss = 0 /\ num_corrects = 0
    /\ batch_losses = <<>> /\ batch_corrects = <<>>
    /\ result = None /\ pexc = "none"
    /\ TrainIdle
    /\ DataIdle

\* lines 120-122, 158-159, 186-188: the sums start at zero
PassBegin ==
    /\ ppc = "idle"
    /\ total_loss' = 0 /\ num_corrects' = 0
    /\ ppc' = "batches"
    /\ UNCHANGED <<split, dataset_len, batch_size, batch_idx, batch_losses,
                   batch_corrects, result, pexc>>
    /\ UNCHANGED <<engineVars, trainVars, dataVars>>

\* lines 124-151: one batch of the training pass
TrainBatch ==
    /\ ppc = "batches" /\ split = "train"
    /\ batch_idx < NumBatches(dataset_len, batch_size)
    /\ \E loss \in 0..MaxLoss :
          /\ total_loss' = total_loss + loss * CurrentSize
          /\ batch_losses' = Append(batch_losses, loss)
    /\ batch_idx' = batch_idx + 1
    /\ UNCHANGED <<split, dataset_len, batch_size, ppc, num_corrects,
                   batch_corrects, result, pexc>>
    /\ UNCHANGED <<engineVars, trainVars, dataVars>>

\* lines 153-154: train_loss = total_loss / len(dataset)
TrainEnd ==
    /\ ppc = "batches" /\ split = "train"
    /\ batch_idx = NumBatches(dataset_len, batch_size)
    /\ IF dataset_len = 0
       THEN ppc' = "raised" /\ pexc' = "ZeroDivisionError" /\ result' = result
       ELSE /\ ppc' = "returned" /\ pexc' = pexc
            /\ result' = Some([loss |-> <<total_loss, dataset_len>>])
    /\ UNCHANGED <<split, dataset_len, batch_size, batch_idx, total_loss,
                   num_corrects, batch_losses, batch_corrects>>
    /\ UNCHANGED <<engineVars, trainVars, dataVars>>

\* lines 161-178: one batch of the validation pass; line 170 reads
\* self.num_clsses
ValBatch ==
    /\ ppc = "batches" /\ split = "val"
    /\ batch_idx < NumBatches(dataset_len, batch_size)
    /\ IF ~HasAttr(self_attrs, "num_clsses")
       THEN /\ ppc' = "raised" /\ pexc' = "AttributeError"
            /\ UNCHANGED <<batch_idx, total_loss, num_corrects, batch_losses,
                           batch_corrects>>
       ELSE /\ \E loss \in 0..MaxLoss :
                  /\ total_loss' = total_loss + loss * CurrentSize
                  /\ batch_losses' = Append(batch_losses, loss)
            /\ \E c \in 0..MaxMatches(self_attrs.num_clsses, CurrentSize) :
                  /\ num_corrects' = num_corrects + c
                  /\ batch_corrects' = Append(batch_corrects, c)
            /\ batch_idx' = batch_idx + 1
            /\ UNCHANGED <<ppc, pexc>>
    /\ UNCHANGED <<split, dataset_len, batch_size, result>>
    /\ UNCHANGED <<engineVars, trainVars, dataVars>>

\* lines 180-182: val_loss and val_acc over len(dataset)
ValEnd ==
    /\ ppc = "batches" /\ split = "val"
    /\ batch_idx = NumBatches(dataset_len, batch_size)
    /\ IF dataset_len = 0
       THEN ppc' = "raised" /\ pexc' = "ZeroDivisionError" /\ result' = result
       ELSE /\ ppc' = "returned" /\ pexc' = pexc
            /\ result' = Some([loss |-> <<total_loss, dataset_len>>,
                               acc  |-> <<num_corrects, dataset_len>>])
    /\ UNCHANGED <<split, dataset_len, batch_size, batch_idx, total_loss,
                   num_corrects, batch_losses, batch_corrects>>
    /\ UNCHANGED <<engineVars, trainVars, dataVars>>

\* lines 190-210: the one batch of _eval, taken with next(); line 199 reads
\* self.num_clsses
EvalBatch ==
    /\ ppc = "batches" /\ split = "eval"
    /\ batch_idx = 0
    /\ IF NumBatches(dataset_len, batch_size) = 0
       THEN /\ ppc' = "raised" /\ pexc' = "StopIteration"
            /\ UNCHANGED <<batch_idx, total_loss, num_corrects, batch_losses,
                           batch_corrects>>
       ELSE IF ~HasAttr(self_attrs, "num_clsses")
       THEN /\ ppc' = "raised" /\ pexc' = "AttributeError"
            /\ UNCHANGED <<batch_idx, total_loss, num_corrects, batch_losses,
                           batch_corrects>>
       ELSE /\ \E loss \in 0..MaxLoss :
                  /\ total_loss' = total_loss + loss * CurrentSize
                  /\ batch_losses' = Append(batch_losses, loss)
            /\ \E c \in 0..MaxMatches(self_attrs.num_clsses, CurrentSize) :
                  /\ num_corrects' = num_corrects + c
                  /\ batch_corrects' = Append(batch_corrects, c)
            /\ batch_idx' = batch_idx + 1
            /\ UNCHANGED <<ppc, pexc>>
    /\ UNCHANGED <<split, dataset_len, batch_size, result>>
    /\ UNCHANGED <<engineVars, trainVars, dataVars>>

\* lines 212-214: eval_loss and eval_acc over len(dataset)
EvalEnd ==
    /\ ppc = "batches" /\ split = "eval"
    /\ batch_idx = 1
    /\ ppc' = "returned"
    /\ result' = Some([loss |-> <<total_loss, dataset_len>>,
                       acc  |-> <<num_corrects, dataset_len>>])
    /\ UNCHANGED <<split, dataset_len, batch_size, batch_idx, total_loss,
                   num_corrects, batch_losses, batch_corrects, pexc>>
    /\ UNCHANGED <<engineVars, trainVars, dataVars>>

\* a forward pass, the criterion or the optimizer raises
BatchRaises ==
    /\ ppc = "batches"
    /\ batch_idx < NumBatches(dataset_len, batch_size)
    /\ split = "eval" => batch_idx = 0
    /\ ppc' = "raised" /\ pexc' = "RuntimeError"
    /\ UNCHANGED <<split, dataset_len, batch_size, batch_idx, total_loss,
                   num_corrects, batch_losses, batch_corrects, result>>
    /\ UNCHANGED <<engineVars, trainVars, dataVars>>

NextPass ==
    \/ PassBegin
    \/ TrainBatch
    \/ TrainEnd
    \/ ValBatch
    \/ ValEnd
    \/ EvalBatch
    \/ EvalEnd
    \/ BatchRaises

SpecPass == InitPass /\ [][NextPass]_vars

----------------------------------------------------------------------------
\* Properties of Engine._train, checked under Spec.

RunPath == save_path(SaveDir, model_name, tag)

\* the accuracy of this epoch exceeds every accuracy of the earlier epochs
ExceedsEarlier ==
    \A i \in 1..Len(val_accuracies) : val_acc > val_accuracies[i]

\* this step writes the checkpoint of the current epoch
SavesThisEpoch ==
    /\ saves' = Append(saves, epoch)
    /\ \E p \in DOMAIN disk' : disk'[p].epoch = epoch
SavesNothing == saves' = saves /\ disk' = disk

\* C1 (as stated): at the end of every epoch a checkpoint is written if and
\* only if the epoch's validation accuracy is strictly greater than every
\* validation accuracy of the earlier epochs of the call, so the first epoch
\* always saves.
C1_SaveIffExceedsEarlier ==
    [][ /\ pc = "decide" /\ ExceedsEarlier => SavesThisEpoch
        /\ pc = "decide" /\ ~ExceedsEarlier => SavesNothing
        /\ pc # "decide" => SavesNothing ]_vars

\* C1 (amended): at the end of every epoch whose validation pass returned, a
\* checkpoint is written if and only if the epoch's validation accuracy is
\* strictly greater than the initial best of 0.0 and than every validation
\* accuracy of the earlier epochs of the call; a tie never saves, and the
\* first epoch saves exactly when its accuracy is above 0.0.
C1_SaveIffAboveZeroAndEarlier ==
    [][ /\ pc = "decide" /\ val_acc > 0 /\ ExceedsEarlier => SavesThisEpoch
        /\ pc = "decide" /\ ~(val_acc > 0 /\ ExceedsEarlier) => SavesNothing
        /\ pc # "decide" => SavesNothing ]_vars

\* accuracies [1/2, 0, 1] of a fresh run: saved after epochs 0 and 2 only
C1_Witness ==
    /\ checkpoint = None /\ pc = "loop"
    /\ val_accuracies = <<1, 0, 2>> /\ saves = <<0, 2>>

ConfiguredEpochs == train_config.num_epochs
ResumeEpoch == checkpoint[1].epoch
Resumed ==
    pc # "start" /\ checkpoint # None /\ "num_epochs" \in DOMAIN train_config

\* the epochs started so far are first, first+1, ... below bound
RunsPrefixOf(first, bound) ==
    \A i \in 1..Len(epochs_run) :
        epochs_run[i] = first + i - 1 /\ epochs_run[i] < bound

\* C2 (as stated): resuming from epoch E with num_epochs <= E, the bound is
\* E + 50 and the call runs exactly the epochs E..E+49.
C2_ExtendsWhenNotAbove ==
    (Resumed /\ ConfiguredEpochs <= ResumeEpoch) =>
        /\ num_epochs = ResumeEpoch + 50
        /\ pc = "done" => Len(epochs_run) = 50

\* C2 (amended): resuming from epoch E with num_epochs < E, the bound is
\* E + 50 and the loop ranges over E..E+49: the epochs run are E, E+1, ...
\* in order, all fifty when the call returns.  With num_epochs = E the bound
\* stays E and no epoch is run.
C2_ExtendsWhenBelow ==
    Resumed =>
        /\ start_epoch = ResumeEpoch
        /\ ConfiguredEpochs < ResumeEpoch =>
              /\ num_epochs = ResumeEpoch + 50
              /\ RunsPrefixOf(ResumeEpoch, ResumeEpoch + 50)
              /\ pc = "done" => Len(epochs_run) = 50
        /\ ConfiguredEpochs = ResumeEpoch =>
              /\ num_epochs = ResumeEpoch
              /\ epochs_run = <<>>
              /\ pc \in {"loop", "done"}

C2_Witness ==
    /\ Resumed /\ ConfiguredEpochs < ResumeEpoch /\ pc = "done"
    /\ Len(epochs_run) = 50 /\ epochs_run[50] = ResumeEpoch + 49

\* C3: the call runs every epoch from start_epoch to num_epochs - 1 in order
\* and then returns; unless the framework fails, a fresh call configured with
\* N >= 1 epochs completes all N validation passes and returns normally.
C3_FreshRunCompletes ==
    ( /\ pc \in {"done", "raised"} /\ exc # "RuntimeError"
      /\ checkpoint = None /\ "num_epochs" \in DOMAIN train_config
      /\ ConfiguredEpochs >= 1 ) =>
        /\ pc = "done"
        /\ Len(val_accuracies) = ConfiguredEpochs
        /\ epochs_run = [i \in 1..ConfiguredEpochs |-> i - 1]

\* C8: the epochs stored by the successive saves of a call strictly increase.
C8_SaveEpochsIncrease ==
    \A i, j \in 1..Len(saves) : i < j => saves[i] < saves[j]

C8_Witness == Len(saves) >= 2 /\ checkpoint # None

\* C9: an exception of the training or the validation pass ends the call in
\* that epoch: control leaves the loop for good, nothing is written in or
\* after the failing epoch, and what earlier epochs wrote stays as it was.
C9_ExceptionEndsRun ==
    [][ /\ (exc = "none" /\ exc' # "none") =>
              /\ pc \in {"loop", "val"} /\ pc' = "raised"
              /\ disk' = disk /\ saves' = saves
              /\ val_accuracies' = val_accuracies
              /\ \A i \in 1..Len(saves') :
                    saves'[i] < epochs_run'[Len(epochs_run')]
        /\ exc = "none" => pc # "raised"
        /\ exc # "none" => UNCHANGED trainVars ]_vars

C9_Witness ==
    /\ pc = "raised" /\ exc = "RuntimeError"
    /\ Len(saves) >= 1 /\ Len(epochs_run) >= 3
    /\ \E p \in DOMAIN disk : disk[p].epoch = saves[Len(saves)]

\* the largest element of a sequence of accuracies
RECURSIVE SeqMax(_)
SeqMax(s) == IF s = <<>> THEN 0
             ELSE LET m == SeqMax(Tail(s)) IN IF Head(s) > m THEN Head(s) ELSE m

\* the first position of s that holds its maximum
FirstMaxIndex(s) ==
    CHOOSE i \in 1..Len(s) :
        /\ s[i] = SeqMax(s)
        /\ \A j \in 1..(i - 1) : s[j] < s[i]

\* C10: every save of a call goes to one path, so once some validation
\* accuracy of the call exceeded 0.0 the one checkpoint file holds the
\* earliest epoch that attained the best validation accuracy so far.
C10_FileHoldsEarliestBest ==
    SeqMax(val_accuracies) > 0 =>
        /\ DOMAIN disk = {RunPath}
        /\ disk[RunPath].epoch = start_epoch + FirstMaxIndex(val_accuracies) - 1

\* accuracies [1/2, 1, 1]: the file holds epoch 1, not the tying epoch 2
C10_Witness ==
    /\ pc = "loop" /\ checkpoint = None /\ val_accuracies = <<1, 2, 2>>
    /\ saves = <<0, 1>> /\ disk[RunPath].epoch = 1

----------------------------------------------------------------------------
\* Properties of the passes, checked under SpecPass.

\* the samples of the split that fall in batch k (k from 1)
SamplesOfBatch(k) ==
    {x \in 0..(dataset_len - 1) : x \div batch_size = k - 1}

RECURSIVE WeightedLossSum(_, _)
WeightedLossSum(losses, k) ==
    IF k = 0 THEN 0
    ELSE losses[k] * Cardinality(SamplesOfBatch(k))
         + WeightedLossSum(losses, k - 1)

\* C7: the loss a training or a validation pass returns is the sum over all
\* batches of the split of batch_loss * (samples actually in the batch),
\* divided by the number of samples of the split.
C7_WeightedAverageLoss ==
    (ppc = "returned" /\ split \in {"train", "val"}) =>
        /\ \A x \in 0..(dataset_len - 1) :
              (x \div batch_size) + 1 \in 1..Len(batch_losses)
        /\ result[1].loss =
              <<WeightedLossSum(batch_losses, Len(batch_losses)), dataset_len>>

\* 4 samples in batches of 3 and 1 with losses 1 and 2: (1*3 + 2*1) / 4
C7_Witness ==
    /\ ppc = "returned" /\ split = "val"
    /\ dataset_len = 4 /\ batch_size = 3 /\ batch_losses = <<1, 2>>
    /\ result[1].loss = <<5, 4>>

\* C4: _eval takes one batch and returns the loss and the accuracy of that
\* batch alone: loss L and c corrects in a batch of b samples give (L, c / b)
\* whatever the size of the evaluation split.
C4_EvalOverOneBatch ==
    (ppc = "returned" /\ split = "eval") =>
        LET b == Cardinality(SamplesOfBatch(1))
            L == batch_losses[1]
            c == batch_corrects[1]
        IN /\ Len(batch_losses) = 1
           /\ result[1].loss[1] = L * result[1].loss[2]
           /\ result[1].acc[1] * b = c * result[1].acc[2]

----------------------------------------------------------------------------
\* The NACTI dataset adapter (src/src/datasets.py).

BinaryAnimalIds ==
    {1, 3, 4, 5, 6, 7, 9, 10, 11, 12, 13, 14, 15, 17, 18, 19, 21, 22, 23, 24,
     26, 27, 28, 29, 30, 31, 32, 33, 34, 35, 36, 37, 38, 40, 41, 42, 43, 44,
     46, 47, 50, 53, 54, 55, 56, 57, 58, 59, 60, 62, 63, 64, 65, 66, 67, 69,
     70}
BinaryOtherIds == {16, 68}

\* 0: not animal, 1: animal
BINARY ==
    [k \in BinaryAnimalIds \cup BinaryOtherIds |->
        IF k \in BinaryOtherIds THEN 0 ELSE 1]
MULTI == [k \in {} |-> 0]
LABEL_TYPES == [binary |-> BINARY, multi |-> MULTI]

MetadataFile == <<"nacti_metadata_tmp.json">>
ImageFile(idx) == <<"image", idx>>

\* the files __init__ has opened when it looks at label_type
\* (OpenedWithFirstImage is the faulty variant that preloads an image first)
OpenedWithFirstImage == {MetadataFile, ImageFile(0)}
OpenedBeforeLabelCheck == {MetadataFile}

\* label = self.label_map[original_label]
\* (RawLabel is the faulty variant that skips the map)
RawLabel(map, original_label) == original_label
MappedLabel(map, original_label) == map[original_label]

\* __len__
NACTI_len == Len(annotations)

InitData ==
    /\ label_type \in {"binary", "multi", "species"}
    /\ metadata_exists \in BOOLEAN
    /\ \E n \in 0..MaxImages :
          /\ annotations \in [1..n -> 1..MaxCategoryId]
          /\ image_exists \in [1..n -> BOOLEAN]
    /\ dpc = "idle" /\ label_map = <<>> /\ opened = {}
    /\ item = None /\ dexc = "none"
    /\ self_attrs = [num_classes |-> 1]
    /\ TrainIdle
    /\ PassIdle

\* __init__, lines 19-33: the metadata file is read, then label_type is
\* looked up in LABEL_TYPES
NACTI_init ==
    /\ dpc = "idle"
    /\ IF ~metadata_exists
       THEN /\ dpc' = "failed" /\ dexc' = "FileNotFoundError"
            /\ UNCHANGED <<opened, label_map>>
       ELSE /\ opened' = OpenedBeforeLabelCheck
            /\ IF label_type \notin DOMAIN LABEL_TYPES
               THEN /\ dpc' = "rejected" /\ dexc' = "KeyError"
                    /\ UNCHANGED label_map
               ELSE /\ label_map' = LABEL_TYPES[label_type]
                    /\ dpc' = "constructed" /\ dexc' = "none"
    /\ UNCHANGED <<label_type, metadata_exists, annotations, image_exists, item>>
    /\ UNCHANGED <<engineVars, trainVars, passVars>>

\* __getitem__, lines 38-51, for an index below __len__
NACTI_getitem ==
    /\ dpc = "constructed"
    /\ \E idx \in 0..(NACTI_len - 1) :
          LET original_label == annotations[idx + 1] IN
          IF ~image_exists[idx + 1]
          THEN /\ dexc' = "FileNotFoundError" /\ item' = None
               /\ UNCHANGED opened
          ELSE /\ opened' = opened \cup {ImageFile(idx)}
               /\ IF original_label \notin DOMAIN label_map
                  THEN dexc' = "KeyError" /\ item' = None
                  ELSE /\ dexc' = "none"
                       /\ item' = Some([idx |-> idx,
                                        label |-> MappedLabel(label_map,
                                                              original_label)])
    /\ UNCHANGED <<label_type, metadata_exists, annotations, image_exists,
                   dpc, label_map>>
    /\ UNCHANGED <<engineVars, trainVars, passVars>>

NextData ==
    \/ NACTI_init
    \/ NACTI_getitem

SpecData == InitData /\ [][NextData]_vars

----------------------------------------------------------------------------
\* Properties of the adapter, checked under SpecData.

LabelValues == {label_map[k] : k \in DOMAIN label_map}

\* C5 (as stated): with label type binary or multi, item(i) succeeds for
\* every index below length() and its label is a value of the label map.
C5_ItemSucceedsWithMappedLabel ==
    (dpc = "constructed" /\ dexc # "FileNotFoundError") =>
        /\ dexc = "none"
        /\ item # None => item[1].label \in LabelValues

\* C5 (amended): whenever item(i) returns, its label is the label map's
\* value for the annotation's category id, a member of the map's value set;
\* item(i) raises when the category id is not a key of the map, which for
\* label type multi, whose map is empty, is every item.
C5_ReturnedLabelIsMapped ==
    /\ item # None =>
          /\ dpc = "constructed" /\ dexc = "none"
          /\ annotations[item[1].idx + 1] \in DOMAIN label_map
          /\ item[1].label = label_map[annotations[item[1].idx + 1]]
          /\ item[1].label \in LabelValues
          /\ label_type = "binary" /\ item[1].label \in {0, 1}
    /\ label_type = "multi" => item = None
    /\ dexc = "KeyError" /\ dpc = "constructed" =>
          \E i \in 1..Len(annotations) : annotations[i] \notin DOMAIN label_map

\* annotations [1, 16] with the binary map: item(1) has label 0
C5_Witness ==
    /\ annotations = <<1, 16>> /\ label_type = "binary"
    /\ item = Some([idx |-> 1, label |-> 0])
    /\ ImageFile(0) \in opened

\* C6 (as stated): an unrecognised label type is rejected before any data
\* access: neither the annotation file nor an image file has been opened.
C6_RejectedBeforeAnyAccess ==
    dpc = "rejected" => opened = {}

\* C6 (amended): an unrecognised label type is rejected by the constructor
\* before any image file is opened, but after the annotation file has been
\* opened and read; no item is ever served by the rejected adapter.
C6_RejectedBeforeAnyImage ==
    /\ dpc = "rejected" =>
          /\ label_type \notin {"binary", "multi"}
          /\ opened = {MetadataFile}
          /\ item = None
    /\ label_type \notin {"binary", "multi"} =>
          /\ dpc \in {"idle", "rejected", "failed"}
          /\ \A i \in 0..MaxImages : ImageFile(i) \notin opened

C6_Witness ==
    /\ dpc = "rejected" /\ dexc = "KeyError" /\ Len(annotations) >= 1
    /\ MetadataFile \in opened

====
